---- MODULE Spec2Model ----
(***************************************************************************)
(* Model of the LazyLLM RAG HTTP service: the lifespan that builds and     *)
(* releases the engine (api/server.py), the /ready probe, and the router's *)
(* query and stats handlers with their request model and rate limiter      *)
(* (api/router/rag_router.py).  The retrieval engine is an opaque          *)
(* collaborator: each call either raises or returns a result, a list of    *)
(* sources and a cache-hit flag left on its cache module.                  *)
(*                                                                         *)
(* Floats are carried in hundredths (0.1 is 10, 0.9 is 90); the cache hit  *)
(* rate is carried in ten-thousandths, which is what round(x, 4) keeps.    *)
(***************************************************************************)
EXTENDS Integers, Sequences, FiniteSets, TLC

VARIABLES
    server_global_rag,  \* api.server.global_rag: the name the lifespan assigns
    router_global_rag,  \* api.router.rag_router.global_rag: the name the handlers read
    lifespan_pc,        \* where the lifespan context manager stands
    rag_state,          \* how far the instance built by the lifespan has got
    modules,            \* global_rag.modules of the engine instance
    storage,            \* the limiter's in-memory counters, one per key
    now,                \* wall clock, in seconds
    last                \* the request handled last and the response it got

vars == << server_global_rag, router_global_rag, lifespan_pc, rag_state,
           modules, storage, now, last >>

-----------------------------------------------------------------------------
(* Program constants *)

TOP_K_MIN == 1
TOP_K_MAX == 20
TOP_K_DEFAULT == 8
THRESHOLD_MIN == 10
THRESHOLD_MAX == 90
THRESHOLD_DEFAULT == 60
RATE_LIMIT == 20
RATE_WINDOW == 60
MAX_DATA_SOURCES == 3

(* Bounds of the model *)

MaxCalls == 2       \* engine calls counted by the cache module
MaxOverLimit == 2   \* hits a key may collect beyond RATE_LIMIT in one window
MaxTime == 120      \* the clock stops here

-----------------------------------------------------------------------------
(* Values *)

None == "None"
RAG == "MultiModalRAG"

Clients == {"10.0.0.1", "10.0.0.2"}
Caller == "10.0.0.1"

Num(v) == [kind |-> "num", val |-> v]
Null == [kind |-> "null", val |-> 0]
Omitted == [kind |-> "omitted", val |-> 0]
NotANumber == [kind |-> "nan", val |-> 0]
Str(s) == [kind |-> "str", val |-> s]
NoQuery == [kind |-> "omitted", val |-> <<>>]

(* A query text is its sequence of characters. *)
RefundPolicy == <<"r", "e", "f", "u", "n", "d", "?">>

DefaultBody == [query |-> Str(RefundPolicy), top_k |-> Omitted,
                similarity_threshold |-> Omitted]

(* Request bodies: the default body with one field varied at a time. *)
Queries == {Str(RefundPolicy), Str(<<>>), Str(<<" ", " ">>), NoQuery}
TopKs == {Null, NotANumber, Num(0), Num(1), Num(20), Num(21), Num(25)}
Thresholds == {Null, NotANumber, Num(9), Num(10), Num(90), Num(91)}

Bodies ==
    {[DefaultBody EXCEPT !.query = q] : q \in Queries}
    \cup {[DefaultBody EXCEPT !.top_k = k] : k \in TopKs}
    \cup {[DefaultBody EXCEPT !.similarity_threshold = t] : t \in Thresholds}

(* The bodies sent to the handlers when the engine answers. *)
BoundBodies ==
    {DefaultBody,
     [DefaultBody EXCEPT !.query = Str(<<>>)],
     [DefaultBody EXCEPT !.top_k = Null],
     [DefaultBody EXCEPT !.top_k = Num(20)],
     [DefaultBody EXCEPT !.similarity_threshold = Num(91)]}

-----------------------------------------------------------------------------
(* RAGQueryRequest: the request model pydantic validates before the handler *)

(* query: str -- required, any string. *)
QueryOk(q) == q.kind = "str"

(* Optional[...] = Query(default=..., ge=lo, le=hi): an omitted field takes
   the default, null is accepted as None, a number must lie in [lo, hi]. *)
RangeOk(f, lo, hi) ==
    \/ f.kind \in {"omitted", "null"}
    \/ f.kind = "num" /\ lo <= f.val /\ f.val <= hi

Validates(body) ==
    /\ QueryOk(body.query)
    /\ RangeOk(body.top_k, TOP_K_MIN, TOP_K_MAX)
    /\ RangeOk(body.similarity_threshold, THRESHOLD_MIN, THRESHOLD_MAX)

WithDefault(f, d) == IF f.kind = "omitted" THEN Num(d) ELSE f

RAGQueryRequest(body) ==
    [query |-> body.query.val,
     top_k |-> WithDefault(body.top_k, TOP_K_DEFAULT),
     similarity_threshold |-> WithDefault(body.similarity_threshold, THRESHOLD_DEFAULT)]

-----------------------------------------------------------------------------
(* limiter = Limiter(key_func=get_remote_address); @limiter.limit("20/minute") *)

get_remote_address_shared(client) == "10.0.0.1"

get_remote_address(client) == client

NoEntry == [count |-> 0, expiry |-> 0]

(* A key's counter lives from its first hit until RATE_WINDOW seconds later. *)
Live(entry, t) == entry.count > 0 /\ t < entry.expiry

LimiterHit(entry, t) ==
    IF Live(entry, t)
    THEN [entry EXCEPT !.count = @ + 1]
    ELSE [count |-> 1, expiry |-> t + RATE_WINDOW]

WithinLimit(entry) == entry.count <= RATE_LIMIT

-----------------------------------------------------------------------------
(* The engine and its modules *)

PlainModule == [hit_rate_attr |-> FALSE, last_hit_attr |-> FALSE,
                hits |-> 0, total |-> 0, last_hit |-> FALSE]
CacheModule == [hit_rate_attr |-> TRUE, last_hit_attr |-> TRUE,
                hits |-> 0, total |-> 0, last_hit |-> FALSE]

ModuleLayouts == {<<CacheModule>>, <<PlainModule, CacheModule>>, <<PlainModule>>}

(* Index of the first module with the hit_rate attribute; 0 when there is none. *)
RECURSIVE FirstFrom(_, _, _)
FirstFrom(mods, i, needLastHit) ==
    IF i > Len(mods) THEN 0
    ELSE IF mods[i].hit_rate_attr /\ (needLastHit => mods[i].last_hit_attr) THEN i
    ELSE FirstFrom(mods, i + 1, needLastHit)

HasCache(mods) == FirstFrom(mods, 1, FALSE) # 0

MaxReturned == 4    \* sources one engine result may carry

(* A source is a dict with a path (a file id here) and a page. *)
Ascending(n) == [i \in 1..n |-> [path |-> i, page |-> 1]]
Descending(n) == [i \in 1..n |-> [path |-> n + 1 - i, page |-> 1]]
SourceLists == {Ascending(n) : n \in 0..MaxReturned} \cup {Descending(MaxReturned)}

(* What one engine call does: raise, return a plain string (no sources
   attribute), or return an object with sources. *)
Outcomes ==
    {[kind |-> "raise", hit |-> FALSE, sources |-> <<>>]}
    \cup {[kind |-> "str", hit |-> h, sources |-> <<>>] : h \in BOOLEAN}
    \cup {[kind |-> "obj", hit |-> h, sources |-> s] : h \in BOOLEAN, s \in SourceLists}

(* The cache module counts the call and keeps its hit flag in _last_hit. *)
EngineCall(mods, out) ==
    LET i == FirstFrom(mods, 1, FALSE) IN
    IF out.kind = "raise" \/ i = 0 THEN mods
    ELSE [mods EXCEPT ![i] = [@ EXCEPT !.total = @ + 1,
                                       !.hits = @ + (IF out.hit THEN 1 ELSE 0),
                                       !.last_hit = out.hit]]

-----------------------------------------------------------------------------
(* rag_query: the body of the query handler *)

NoCall == [query |-> <<>>, top_k |-> Omitted, similarity_threshold |-> Omitted]
NoOutcome == [kind |-> "none", hit |-> FALSE, sources |-> <<>>]

Min(a, b) == IF a <= b THEN a ELSE b

(* [source["path"] for source in result.sources[:3]], [] without sources *)
ExtractSources_uncapped(out) ==
    IF out.kind = "obj"
    THEN [i \in 1..Len(out.sources) |-> out.sources[i].path]
    ELSE <<>>

ExtractSources(out) ==
    IF out.kind = "obj"
    THEN [i \in 1..Min(MAX_DATA_SOURCES, Len(out.sources)) |-> out.sources[i].path]
    ELSE <<>>

(* _last_hit of the first module with hit_rate and _last_hit, else False *)
ExtractCacheHit(mods) ==
    LET i == FirstFrom(mods, 1, TRUE) IN
    IF i = 0 THEN FALSE ELSE mods[i].last_hit

TryBlock_retry(ref, req, out, mods) ==
    IF ref = None
    THEN [raised |-> "HTTPException(503)", calls |-> 0, call |-> NoCall,
          out |-> NoOutcome, modules |-> mods, data_source |-> <<>>,
          cache_hit |-> FALSE]
    ELSE IF out.kind = "raise"
    THEN [raised |-> "EngineError", calls |-> 2, call |-> req,
          out |-> out, modules |-> EngineCall(mods, out), data_source |-> <<>>,
          cache_hit |-> FALSE]
    ELSE [raised |-> "no", calls |-> 1, call |-> req,
          out |-> out, modules |-> EngineCall(mods, out),
          data_source |-> ExtractSources(out),
          cache_hit |-> ExtractCacheHit(EngineCall(mods, out))]

TryBlock_stale_flag(ref, req, out, mods) ==
    IF ref = None
    THEN [raised |-> "HTTPException(503)", calls |-> 0, call |-> NoCall,
          out |-> NoOutcome, modules |-> mods, data_source |-> <<>>,
          cache_hit |-> FALSE]
    ELSE IF out.kind = "raise"
    THEN [raised |-> "EngineError", calls |-> 1, call |-> req,
          out |-> out, modules |-> EngineCall(mods, out), data_source |-> <<>>,
          cache_hit |-> FALSE]
    ELSE [raised |-> "no", calls |-> 1, call |-> req,
          out |-> out, modules |-> EngineCall(mods, out),
          data_source |-> ExtractSources(out),
          cache_hit |-> ExtractCacheHit(mods)]

(* The try block: what it raises or returns, the engine calls it makes and
   the modules it leaves. *)
TryBlock(ref, req, out, mods) ==
    IF ref = None
    THEN [raised |-> "HTTPException(503)", calls |-> 0, call |-> NoCall,
          out |-> NoOutcome, modules |-> mods, data_source |-> <<>>,
          cache_hit |-> FALSE]
    ELSE IF out.kind = "raise"
    THEN [raised |-> "EngineError", calls |-> 1, call |-> req,
          out |-> out, modules |-> EngineCall(mods, out), data_source |-> <<>>,
          cache_hit |-> FALSE]
    ELSE [raised |-> "no", calls |-> 1, call |-> req,
          out |-> out, modules |-> EngineCall(mods, out),
          data_source |-> ExtractSources(out),
          cache_hit |-> ExtractCacheHit(EngineCall(mods, out))]

(* except Exception: HTTPException is an Exception, so every raise of the try
   block, the 503 included, leaves as HTTPException(500, "query failed: ..."). *)
ExceptStatus(raised) == 500

rag_query(ref, req, out, mods) ==
    LET t == TryBlock(ref, req, out, mods) IN
    [status |-> IF t.raised = "no" THEN 200 ELSE ExceptStatus(t.raised),
     detail |-> IF t.raised = "no" THEN "" ELSE "query failed",
     raised |-> t.raised, seen |-> ref, calls |-> t.calls, call |-> t.call,
     out |-> t.out, modules |-> t.modules,
     data_source |-> IF t.raised = "no" THEN t.data_source ELSE <<>>,
     cache_hit |-> IF t.raised = "no" THEN t.cache_hit ELSE FALSE]

-----------------------------------------------------------------------------
(* get_rag_stats and ready_check *)

(* round(module.hit_rate, 4), in ten-thousandths; hit_rate is hits / total *)
RoundedHitRate(m) ==
    IF m.total = 0 THEN 0 ELSE (2 * 10000 * m.hits + m.total) \div (2 * m.total)

StatsHitRate(mods) ==
    LET i == FirstFrom(mods, 1, FALSE) IN
    IF i = 0 THEN 0 ELSE RoundedHitRate(mods[i])

get_rag_stats(ref, mods) ==
    IF ref = None
    THEN [status |-> 503, cache_hit_rate |-> 0]
    ELSE [status |-> 200, cache_hit_rate |-> StatsHitRate(mods)]

ready_check(ref) == IF ref = None THEN 503 ELSE 200

-----------------------------------------------------------------------------
(* lifespan: startup up to the yield, and the release after it *)

lifespan_startup_swallow(build_ok, has_data, load_ok) ==
    IF ~build_ok THEN [global_rag |-> None, rag_state |-> "unbuilt", pc |-> "failed"]
    ELSE IF ~has_data THEN [global_rag |-> RAG, rag_state |-> "built", pc |-> "serving"]
    ELSE IF load_ok THEN [global_rag |-> RAG, rag_state |-> "loaded", pc |-> "serving"]
    ELSE [global_rag |-> RAG, rag_state |-> "partial", pc |-> "serving"]

(* build_multimodal_rag is assigned to global_rag before load_data runs; an
   exception of either is logged and raised again. *)
lifespan_startup(build_ok, has_data, load_ok) ==
    IF ~build_ok THEN [global_rag |-> None, rag_state |-> "unbuilt", pc |-> "failed"]
    ELSE IF ~has_data THEN [global_rag |-> RAG, rag_state |-> "built", pc |-> "serving"]
    ELSE IF load_ok THEN [global_rag |-> RAG, rag_state |-> "loaded", pc |-> "serving"]
    ELSE [global_rag |-> RAG, rag_state |-> "partial", pc |-> "failed"]

(* Handlers run whenever the process is up and the event loop is not inside
   the lifespan: a failed startup ends the process. *)
ServingPhases == {"pending", "serving", "stopped"}
Serving == lifespan_pc \in ServingPhases

Complete(st) == st \in {"built", "loaded"}

-----------------------------------------------------------------------------
(* State *)

NoRequest ==
    [route |-> "none", client |-> "", body |-> DefaultBody, status |-> 0,
     handled |-> FALSE, seen |-> None, phase |-> "pending", raised |-> "no",
     calls |-> 0, call |-> NoCall, out |-> NoOutcome, data_source |-> <<>>,
     cache_hit |-> FALSE, cache_hit_rate |-> 0, detail |-> "",
     at |-> 0, before |-> NoEntry]

Init ==
    /\ server_global_rag = None
    /\ router_global_rag = None     \* from api.server import global_rag
    /\ lifespan_pc = "pending"
    /\ rag_state = "unbuilt"
    /\ modules \in ModuleLayouts
    /\ storage = [k \in Clients |-> NoEntry]
    /\ now = 0
    /\ last = NoRequest

(* The handlers with the router's global_rag naming an engine instance. *)
InitBound ==
    /\ server_global_rag = None
    /\ router_global_rag = RAG
    /\ lifespan_pc = "pending"
    /\ rag_state = "unbuilt"
    /\ modules \in ModuleLayouts
    /\ storage = [k \in Clients |-> NoEntry]
    /\ now = 0
    /\ last = NoRequest

-----------------------------------------------------------------------------
(* Actions *)

LifespanStartup(build_ok, has_data, load_ok) ==
    /\ lifespan_pc = "pending"
    /\ LET r == lifespan_startup(build_ok, has_data, load_ok) IN
       /\ server_global_rag' = r.global_rag
       /\ rag_state' = r.rag_state
       /\ lifespan_pc' = r.pc
    /\ UNCHANGED << router_global_rag, modules, storage, now, last >>

LifespanShutdown ==
    /\ lifespan_pc = "serving"
    /\ server_global_rag' = None
    /\ lifespan_pc' = "stopped"
    /\ UNCHANGED << router_global_rag, rag_state, modules, storage, now, last >>

Request(route, client, body) ==
    [NoRequest EXCEPT !.route = route, !.client = client, !.body = body,
                      !.phase = lifespan_pc, !.at = now,
                      !.before = IF route = "query"
                                 THEN storage[get_remote_address(client)]
                                 ELSE NoEntry]

(* What the engine may do when this request reaches it: nothing when the
   handler does not get as far as the call. *)
OutcomesFor(ref, mods) ==
    IF ref = None THEN {NoOutcome}
    ELSE {o \in Outcomes : o.hit => HasCache(mods)}

(* POST /v1/rag/query: body validation, then the limiter, then rag_query. *)
PostQuery(client, body) ==
    /\ Serving
    /\ IF ~Validates(body)
       THEN /\ last' = [Request("query", client, body) EXCEPT !.status = 422,
                            !.detail = "validation error"]
            /\ UNCHANGED << storage, modules >>
       ELSE LET key == get_remote_address(client)
                entry == LimiterHit(storage[key], now)
            IN  /\ entry.count <= RATE_LIMIT + MaxOverLimit
                /\ storage' = [storage EXCEPT ![key] = entry]
                /\ IF ~WithinLimit(entry)
                   THEN /\ last' = [Request("query", client, body) EXCEPT !.status = 429,
                                        !.detail = "rate limit exceeded"]
                        /\ UNCHANGED modules
                   ELSE \E out \in OutcomesFor(router_global_rag, modules) :
                        LET r == rag_query(router_global_rag, RAGQueryRequest(body),
                                           out, modules)
                        IN  /\ r.calls > 0 =>
                                  \A i \in 1..Len(modules) : modules[i].total < MaxCalls
                            /\ modules' = r.modules
                            /\ last' = [Request("query", client, body) EXCEPT
                                            !.status = r.status, !.handled = TRUE,
                                            !.seen = r.seen, !.raised = r.raised,
                                            !.calls = r.calls, !.call = r.call,
                                            !.out = r.out, !.data_source = r.data_source,
                                            !.cache_hit = r.cache_hit, !.detail = r.detail]
    /\ UNCHANGED << server_global_rag, router_global_rag, lifespan_pc, rag_state, now >>

(* GET /v1/rag/stats *)
GetStats(client) ==
    /\ Serving
    /\ LET r == get_rag_stats(router_global_rag, modules) IN
       last' = [Request("stats", client, DefaultBody) EXCEPT !.status = r.status,
                    !.handled = TRUE, !.seen = router_global_rag,
                    !.cache_hit_rate = r.cache_hit_rate]
    /\ UNCHANGED << server_global_rag, router_global_rag, lifespan_pc, rag_state,
                    modules, storage, now >>

(* GET /ready *)
ReadyCheck(client) ==
    /\ Serving
    /\ last' = [Request("ready", client, DefaultBody) EXCEPT
                    !.status = ready_check(server_global_rag),
                    !.handled = TRUE, !.seen = server_global_rag]
    /\ UNCHANGED << server_global_rag, router_global_rag, lifespan_pc, rag_state,
                    modules, storage, now >>

Advance(d) ==
    /\ now + d <= MaxTime
    /\ now' = now + d
    /\ UNCHANGED << server_global_rag, router_global_rag, lifespan_pc, rag_state,
                    modules, storage, last >>

Next ==
    \/ \E b \in BOOLEAN, d \in BOOLEAN, l \in BOOLEAN : LifespanStartup(b, d, l)
    \/ LifespanShutdown
    \/ \E body \in Bodies : PostQuery(Caller, body)
    \/ GetStats(Caller)
    \/ ReadyCheck(Caller)

(* The service as written: the router's global_rag is the copy made when the
   router module was imported. *)
Spec == Init /\ [][Next]_vars

NextBound ==
    \/ \E body \in BoundBodies : PostQuery(Caller, body)
    \/ GetStats(Caller)
    \/ ReadyCheck(Caller)

(* The handlers called with the router's global_rag naming an engine. *)
SpecBound == InitBound /\ [][NextBound]_vars

NextLimiter ==
    \/ \E c \in Clients : PostQuery(c, DefaultBody)
    \/ \E d \in {RATE_WINDOW - 1, RATE_WINDOW} : Advance(d)

(* The limiter over time, with two client addresses. *)
SpecLimiter == Init /\ [][NextLimiter]_vars

-----------------------------------------------------------------------------
(* Properties *)

IsQuery == last.route = "query"

(* C1: a query handled while the engine reference the handler reads is not
   set is answered with 503 and nothing else, and the engine is not invoked. *)
C1_NotReadyAnswers503 ==
    (IsQuery /\ last.handled /\ last.seen = None) =>
        (last.status = 503 /\ last.calls = 0)

(* Per client address, a request is rejected with 429 and kept from the
   handler exactly when it is the 21st or a later one of the 60-second window
   its address opened; a request made once that window has passed opens a new
   window and is admitted; a request changes no other address's counter. *)
C2_WindowOf(e, t) == e.count > 0 /\ t < e.expiry

C2_State ==
    (IsQuery /\ last.status # 422) =>
        LET inWindow == C2_WindowOf(last.before, last.at)
            seenBefore == IF inWindow THEN last.before.count ELSE 0
            entry == storage[last.client]
        IN  /\ entry.count = seenBefore + 1
            /\ entry.expiry = (IF inWindow THEN last.before.expiry ELSE last.at + 60)
            /\ (last.status = 429) <=> (seenBefore >= 20)
            /\ (last.status = 429) => (~last.handled /\ last.calls = 0)
            /\ (last.status # 429) => last.handled

C2_Step ==
    \A c \in Clients :
        storage'[c] # storage[c] => (last'.route = "query" /\ last'.client = c)

(* C2: the 21st request of an address's 60-second window is rejected with
   429 before the handler, a request after the window is admitted again, and
   no request consumes another address's quota. *)
C2_RateLimit == [](C2_State) /\ [][C2_Step]_vars

(* C2 witness: an address that had used up its window is admitted again once
   the window has passed. *)
C2_Witness ==
    /\ IsQuery /\ last.handled
    /\ last.before.count > 20
    /\ last.at >= last.before.expiry
    /\ \E c \in Clients : c # last.client /\ storage[c].count > 0

C3_InRange(f, lo, hi) == f.kind = "num" /\ lo <= f.val /\ f.val <= hi

(* C3: every engine invocation carries 1 <= top_k <= 20 and
   0.1 <= similarity_threshold <= 0.9, and a request whose top_k or
   similarity_threshold is given but is not a number in its range is rejected
   with a validation error before the handler runs. *)
C3_RangesEnforced ==
    IsQuery =>
        /\ last.calls > 0 =>
              /\ C3_InRange(last.call.top_k, 1, 20)
              /\ C3_InRange(last.call.similarity_threshold, 10, 90)
        /\ (\/ (last.body.top_k.kind # "omitted"
                  /\ ~C3_InRange(last.body.top_k, 1, 20))
            \/ (last.body.similarity_threshold.kind # "omitted"
                  /\ ~C3_InRange(last.body.similarity_threshold, 10, 90)))
           => (last.status = 422 /\ ~last.handled /\ last.calls = 0)

C4_Blank(q) == q.kind = "str" /\ \A i \in 1..Len(q.val) : q.val[i] = " "

(* C4: a query that is empty or only whitespace is rejected with a
   validation error and never reaches the handler or the engine. *)
C4_BlankQueryRejected ==
    (IsQuery /\ C4_Blank(last.body.query)) =>
        (last.status = 422 /\ ~last.handled /\ last.calls = 0)

(* C5: when the engine call raises, the engine was invoked exactly once for
   the request and the response is 500 with an error detail, never 200. *)
C5_EngineFailureIs500 ==
    (IsQuery /\ last.out.kind = "raise") =>
        (last.calls = 1 /\ last.status = 500 /\ last.detail # "")

C5_Witness ==
    IsQuery /\ last.out.kind = "raise" /\ last.status = 500 /\ last.seen = RAG

(* C6: in a 200 query response data_source has at most 3 entries: the paths
   of the first min(3, n) of the n sources the engine returned, in order, and
   none when the result has no sources. *)
C6_DataSourceCapped ==
    (IsQuery /\ last.status = 200) =>
        LET n == IF last.out.kind = "obj" THEN Len(last.out.sources) ELSE 0
            k == IF n < 3 THEN n ELSE 3
        IN  /\ Len(last.data_source) = k
            /\ k <= 3
            /\ \A i \in 1..k : last.data_source[i] = last.out.sources[i].path

C6_Witness ==
    /\ IsQuery /\ last.status = 200
    /\ Len(last.out.sources) > 3
    /\ last.data_source = <<4, 3, 2>>

(* C7: cache_hit of a 200 query response is the hit flag the engine reported
   for this request's own call. *)
C7_CacheHitOfOwnCall ==
    (IsQuery /\ last.status = 200) => (last.cache_hit = last.out.hit)

(* C7 witness: the second call hits after a first call that missed, and the
   second response says so. *)
C7_Witness ==
    /\ IsQuery /\ last.status = 200 /\ last.cache_hit
    /\ \E i \in 1..Len(modules) :
          modules[i].total = 2 /\ modules[i].hits = 1 /\ modules[i].last_hit

(* Whoever serves a request sees the engine reference either unset or naming
   a fully constructed and loaded instance. *)
C8_State ==
    /\ (Serving /\ server_global_rag # None) => Complete(rag_state)
    /\ (last.route # "none" /\ last.seen # None) => Complete(rag_state)
    /\ (lifespan_pc \in {"serving", "stopped"}) => Complete(rag_state)
    /\ (~Complete(rag_state) /\ lifespan_pc # "pending") => lifespan_pc = "failed"

C8_Step == (lifespan_pc = "failed") => (last' = last /\ lifespan_pc' = "failed")

(* C8: a startup whose construction or data load raised never serves a
   request, and whoever serves a request sees the engine reference either
   unset or naming a fully constructed and loaded instance. *)
C8_FailClosed == [](C8_State) /\ [][C8_Step]_vars

(* C8 witness: the data load raised after the reference was assigned. *)
C8_Witness ==
    lifespan_pc = "failed" /\ rag_state = "partial" /\ server_global_rag = RAG

(* C9: /ready answers 200 exactly when the engine reference is set and 503
   otherwise, and a /ready, query or stats request handled after the release
   is answered "not ready" (503) without an engine call. *)
C9_ReadyAndRelease ==
    /\ last.route = "ready" =>
          /\ last.status \in {200, 503}
          /\ (last.status = 200) <=> (last.seen # None)
    /\ (last.handled /\ last.phase = "stopped") =>
          (last.status = 503 /\ last.calls = 0)

(* C10: stats answers 503 while the engine is not constructed and 200 with
   the hit rate once it is. *)
C10_StatsFollowEngine ==
    last.route = "stats" =>
        /\ (last.phase \in {"pending", "stopped"}) => last.status = 503
        /\ (last.phase = "serving") => last.status = 200

(* C11: the query handler, the stats handler and /ready read the same engine
   reference in every state, so once the lifespan has published the engine a
   handled query or stats request sees it set, and a query the engine answers
   gets 200. *)
C11_SameEngineReference ==
    /\ router_global_rag = server_global_rag
    /\ (last.handled /\ last.phase = "serving" /\ last.route \in {"query", "stats"}) =>
          /\ last.seen # None
          /\ (last.raised # "EngineError") => last.status = 200

====
